---------------------------- MODULE Spec2Model ----------------------------
(***************************************************************************)
(* The two DQN training loops of the Gomoku repository:                    *)
(*   train_dqn_rule_based  (src/train_rule_based_dqn.py)                   *)
(*   train_dqn_self_play   (src/train_self_play_dqn.py)                    *)
(* driving the game environment and the learning agents.  The environment, *)
(* the agent and the rule-based opponent are imported by the loops         *)
(* (gomoku_env, dqn_agent, utils); they are modelled from their contract   *)
(* in spec.md sections 3, 4 and 6.  The offline plotting tool              *)
(*   visualize_training_against_rule_based  (src/vis_rule_based_ppo.py)    *)
(* is a program of its own, with its own specification VisSpec.            *)
(***************************************************************************)
EXTENDS Integers, Sequences, FiniteSets, TLC

(***************************************************************************)
(* Bounds of the model.  The loops' parameters are instantiated small.     *)
(***************************************************************************)
\* board_size: the board is BoardSize x BoardSize
BoardSize == 3
\* length of the run of marks that wins; scaled with the board so that a win
\* is reachable on the model's board (spec.md 4.1 fixes it at 5)
WinLen == 3
\* num_episodes
NumEpisodes == 3
\* memory_size: capacity of a replay buffer
MemorySize == 2
\* batch_size: update_model is a no-op below this many stored transitions
BatchSize == 2
\* update_target_every
UpdateTargetEvery == 2
\* log_every
LogEvery == 2
\* how many of the legal moves (lowest cells first) a policy's choice ranges over
Branch == 2
\* the plotting tool: the longest metric array a file holds, the largest log_every
MaxPoints == 3
MaxLogEvery == 3

(***************************************************************************)
(* Reward configuration (rewards/<name>.yml, read-only after load).        *)
(***************************************************************************)
\* Rewards are fixed-point numbers in hundredths: 2 is 0.02, 100 is 1.0.
StepReward == 2
WinReward == 100
DrawReward == 50
InvalidReward == -100
\* agent_reward -= 1 when the other player wins (1.0 in hundredths)
LossPenalty == 100
\* epsilon_start, epsilon_end and epsilon_decay, fixed-point in ten-thousandths:
\* 10000 is 1.0, 9995 is 0.9995
EpsilonStart == 10000
EpsilonEnd == 0
EpsilonDecay == 9995
\* rewards_type / --config_name
RewardsType == "rewards_default"
\* model_save_path
ModelSavePath == "dqn_gomoku.pth"
\* the plotting tool's rewards_type, suffix and save_folder
VisRewardsType == "rewards_1"
Suffix == "1"
SaveFolder == "plots_rule_based"

VARIABLES
    mode,            \* "rule": train_dqn_rule_based, "self": train_dqn_self_play
    pc,              \* position of the loop: start (top of the for-loop), loop
                     \* (top of the while-loop), log (after the while-loop), finished
    board,           \* env.board: cell -> 0 (empty), 1, 2
    current_player,  \* env.current_player
    buffer,          \* agent -> replay buffer (sequence of transitions)
    epsilon,         \* agent -> number of decays applied to epsilon
    policy_net,      \* agent -> version of the policy network parameters
    target_net,      \* agent -> policy version held by the target network
    episode,         \* the for-loop's episode
    state,           \* the loop's local `state`
    done,            \* the loop's local `done`
    info,            \* info["info"] of the last env.step ("" when absent)
    agent_reward,    \* agent -> agent1_reward / agent2_reward
    step_count,      \* the loop's local step_count
    wins,            \* 1 -> agent1_wins, 2 -> agent2_wins / rule_based_wins
    draws,
    win_rates,
    losses,          \* agent -> agent1_losses / agent2_losses
    rewards_list,    \* agent -> agent1_rewards_list / agent2_rewards_list
    avg_losses,      \* agent -> agent1_avg_losses / agent2_avg_losses
    prints,          \* episodes at which the progress line was printed
    saved,           \* files written, in order
    calls,           \* history: calls made by the last loop iteration, in order
    sync_log,        \* history: agent -> episodes at whose end the target was synced
    prev_next,       \* history: next_state of the transition stored before the one
                     \* in calls, in the same episode (NoState when there is none)
    steps,           \* history: env.step calls made in the current episode
    outcomes,        \* history: the terminal message of every finished episode
    turns,           \* history: player -> turns played so far in the whole run
    step_rewards,    \* history: player -> sum of the rewards env.step returned for
                     \* that player's moves in the current episode
    stored,          \* history: agent -> the transitions handed to its
                     \* store_transition in the current episode, in order
    \* visualize_training_against_rule_based
    vpc,             \* position: idle (not called), load, axis, plot, returned
    metric_files,    \* metric file of the folder -> length of its array, or Absent
    fs_dirs,         \* the directories that exist
    log_every,       \* the parameter log_every
    num_points,      \* the local num_points
    episodes,        \* the local episodes (the x axis), a sequence
    rates_len,       \* len(win_rates), the local, after the mismatch branch
    vis_out,         \* the messages printed, in order
    plots,           \* the image files saved, in order
    made_dirs,       \* history: the directories os.makedirs was called with
    dirs_before      \* history: fs_dirs when the function was called

loopVars == <<mode, pc, board, current_player, buffer, epsilon, policy_net, target_net,
          episode, state, done, info, agent_reward, step_count, wins, draws,
          win_rates, losses, rewards_list, avg_losses, prints, saved,
          calls, sync_log, prev_next, steps, outcomes, turns,
          step_rewards, stored>>

visVars == <<vpc, metric_files, fs_dirs, log_every, num_points, episodes, rates_len,
             vis_out, plots, made_dirs, dirs_before>>

vars == <<loopVars, visVars>>

Cells == 0 .. (BoardSize * BoardSize - 1)
Agents == {1, 2}
\* Python's None, as an update_model result: no loss carries episode 0
None == [episode |-> 0, version |-> 0]

(***************************************************************************)
(* Game environment (GomokuEnvironment), spec.md 4.1                       *)
(***************************************************************************)
EmptyBoard == [c \in Cells |-> 0]

\* state encoding: per-player occupancy planes
Encode(b) == [p \in Agents |-> {c \in Cells : b[c] = p}]

\* no encoding at all: the absence of a previous transition
NoState == [p \in Agents |-> {-1}]

\* reset(): clears the board, turn to player 1, returns the initial encoding

Reset == [board |-> EmptyBoard, current_player |-> 1, state |-> Encode(EmptyBoard)]

\* get_valid_moves(): every empty cell's flattened coordinate
ValidMoves(b) == {c \in Cells : b[c] = 0}

InBounds(r, c) == r >= 0 /\ r < BoardSize /\ c >= 0 /\ c < BoardSize

Flat(r, c) == r * BoardSize + c

\* consecutive marks of player p from (r, c) in direction (dr, dc), (r, c) included
RECURSIVE CountDir(_, _, _, _, _, _)
CountDir(b, p, r, c, dr, dc) ==
    IF InBounds(r, c) /\ b[Flat(r, c)] = p
    THEN 1 + CountDir(b, p, r + dr, c + dc, dr, dc)
    ELSE 0

Axes == {<<0, 1>>, <<1, 0>>, <<1, 1>>, <<1, -1>>}

\* win detection from the just-placed cell: both sides of the cell, inclusive
IsWin(b, p, r, c) ==
    \E d \in Axes :
        1 + CountDir(b, p, r + d[1], c + d[2], d[1], d[2])
          + CountDir(b, p, r - d[1], c - d[2], -d[1], -d[2]) >= WinLen

WinMessage(p) == IF p = 1 THEN "Player 1 wins" ELSE "Player 2 wins"

\* step(action): action is a (row, col) pair
EnvStep(b, cp, action) ==
    LET r == action[1]
        c == action[2]
    IN  IF ~InBounds(r, c) \/ b[Flat(r, c)] # 0
        THEN [board |-> b, current_player |-> cp, next_state |-> Encode(b),
              reward |-> InvalidReward, done |-> TRUE, info |-> "Invalid move"]
        ELSE LET nb == [b EXCEPT ![Flat(r, c)] = cp]
             IN  IF IsWin(nb, cp, r, c)
                 THEN [board |-> nb, current_player |-> cp, next_state |-> Encode(nb),
                       reward |-> StepReward + WinReward, done |-> TRUE,
                       info |-> WinMessage(cp)]
                 ELSE IF ValidMoves(nb) = {}
                 THEN [board |-> nb, current_player |-> cp, next_state |-> Encode(nb),
                       reward |-> StepReward + DrawReward, done |-> TRUE,
                       info |-> "Draw"]
                 ELSE [board |-> nb, current_player |-> 3 - cp, next_state |-> Encode(nb),
                       reward |-> StepReward, done |-> FALSE, info |-> ""]

(***************************************************************************)
(* Learning agent (DQNAgent) and its replay buffer, spec.md 4.2, 4.3       *)
(***************************************************************************)
\* the moves a policy's choice ranges over: the Branch lowest legal cells
Candidates(valid) == {c \in valid : Cardinality({d \in valid : d < c}) < Branch}

\* select_action(state, valid_moves): a member of valid_moves (random with
\* probability epsilon, else the network's best legal move)
SelectAction(valid) == Candidates(valid)

\* action_index_to_coordinates
ActionIndexToCoordinates(i) == <<i \div BoardSize, i % BoardSize>>

\* ReplayBuffer.add: evicts the oldest record at capacity
BufferAdd(buf, t) ==
    IF Len(buf) < MemorySize THEN Append(buf, t) ELSE Append(Tail(buf), t)

\* update_model(): none below batch_size stored transitions, else the loss of
\* one optimizer step; a loss is identified by the episode and the policy
\* version it produced
UpdateModel(buf, ep, version) ==
    IF Len(buf) < BatchSize THEN None ELSE [episode |-> ep, version |-> version + 1]

\* smartest_rule_based_move(env): a legal (row, col) of the current board
RuleBasedMoves(b) == {ActionIndexToCoordinates(c) : c \in Candidates(ValidMoves(b))}

\* epsilon after k selection calls: max(epsilon_end, epsilon_start * decay**k),
\* the decay applied call by call
RECURSIVE EpsilonValue(_)
EpsilonValue(k) ==
    IF k = 0 THEN EpsilonStart
    ELSE LET e == (EpsilonValue(k - 1) * EpsilonDecay) \div 10000
         IN  IF e > EpsilonEnd THEN e ELSE EpsilonEnd

\* A recorded call.  agent is the DQN agent called (0 for the environment and
\* the rule-based function; for step, the env.current_player the move is for).
Call(op, agent, arg, res) == [op |-> op, agent |-> agent, arg |-> arg, res |-> res]

(***************************************************************************)
(* The plotting tool's view of the file system, and numpy's arange         *)
(***************************************************************************)
\* the metric files of folder rule_based_ppo/<rewards_type>, for the suffix
MetricFiles == {"win_rates", "agent1_rewards", "policy_losses", "value_losses"}
\* a file that does not exist has no array
Absent == -1

\* np.load(file): FileNotFoundError when the file does not exist
LoadFails(fsys, f) == fsys[f] = Absent

\* np.arange(start, stop, step) for integers and step > 0: start, start + step,
\* ... up to, and without, stop
ArangeLen(start, stop, step) ==
    IF stop > start THEN (stop - start + step - 1) \div step ELSE 0
Arange(start, stop, step) ==
    [i \in 1 .. ArangeLen(start, stop, step) |-> start + (i - 1) * step]

\* min(a, b)
Min(a, b) == IF a < b THEN a ELSE b

(***************************************************************************)
(* Initial state: the loop's state before the first episode                *)
(***************************************************************************)
LoopInit ==
    /\ pc = "start"
    /\ board = EmptyBoard
    /\ current_player = 1
    /\ buffer = [a \in Agents |-> <<>>]
    /\ epsilon = [a \in Agents |-> 0]
    /\ policy_net = [a \in Agents |-> 0]
    /\ target_net = [a \in Agents |-> 0]
    /\ episode = 0
    /\ state = Encode(EmptyBoard)
    /\ done = FALSE
    /\ info = ""
    /\ agent_reward = [a \in Agents |-> 0]
    /\ step_count = 0
    /\ wins = [a \in Agents |-> 0]
    /\ draws = 0
    /\ win_rates = <<>>
    /\ losses = [a \in Agents |-> <<>>]
    /\ rewards_list = [a \in Agents |-> <<>>]
    /\ avg_losses = [a \in Agents |-> <<>>]
    /\ prints = {}
    /\ saved = <<>>
    /\ calls = <<>>
    /\ sync_log = [a \in Agents |-> <<>>]
    /\ prev_next = NoState
    /\ steps = 0
    /\ outcomes = <<>>
    /\ turns = [a \in Agents |-> 0]
    /\ step_rewards = [a \in Agents |-> 0]
    /\ stored = [a \in Agents |-> <<>>]

\* the plotting tool before it is called
VisIdle ==
    /\ vpc = "idle"
    /\ metric_files = [f \in MetricFiles |-> Absent]
    /\ fs_dirs = {}
    /\ log_every = 1
    /\ num_points = 0
    /\ episodes = <<>>
    /\ rates_len = 0
    /\ vis_out = <<>>
    /\ plots = <<>>
    /\ made_dirs = <<>>
    /\ dirs_before = {}

Init ==
    /\ mode \in {"rule", "self"}
    /\ LoopInit
    /\ VisIdle

(***************************************************************************)
(* Pieces of the loops' bodies                                             *)
(***************************************************************************)
\* mutant: the agents are constructed anew for every episode
EpisodeEpsilon_Reinstantiated(eps) == [a \in Agents |-> 0]

\* The agents are constructed once, before the for-loop; the top of its body
\* calls env.reset() and assigns the loop's locals, and constructs no agent:
\* every agent's epsilon is what the previous episode left.
EpisodeEpsilon(eps) == eps

\* mutant: every move is attributed to agent1
SelfAgent_AlwaysAgent1(cp) == 1

\* self-play, lines 148-152: the agent of env.current_player
SelfAgent(cp) == IF cp = 1 THEN 1 ELSE 2

\* mutant: the assignment state = next_state is missing
SelfNextState_Stale(s, ns) == s

\* self-play, line 182: state = next_state
SelfNextState(s, ns) == ns

\* self-play, line 183: step_count += 1
SelfNextStepCount(n) == n + 1

\* rule-based loop: its while-body assigns neither state nor step_count
RuleNextState(s, ns) == s

RuleNextStepCount(n) == n

\* mutant: the coordinates are swapped when the action is built
ActionOf_Swapped(action_index) ==
    LET rc == ActionIndexToCoordinates(action_index) IN <<rc[2], rc[1]>>

\* row, col = agent.action_index_to_coordinates(action_index); action = (row, col)
ActionOf(action_index) ==
    LET rc == ActionIndexToCoordinates(action_index) IN <<rc[1], rc[2]>>

\* mutant: the loop never sees done
LoopExit_Never(d) == FALSE

\* while not done: ... if done: ... break
LoopExit(d) == d

\* mutant: the for-loop ends after its first episode
ForLoopDone_AfterFirst(ep) == ep >= 1

\* for episode in range(1, num_episodes + 1): whether the range is exhausted
ForLoopDone(ep) == ep >= NumEpisodes

\* mutant: the appends sit under the log_every test
AppendMetric_OnLogOnly(ep, l, x) == IF ep % LogEvery = 0 THEN Append(l, x) ELSE l

\* the per-episode appends to the metric lists (they ignore the episode number)
AppendMetric(ep, l, x) == Append(l, x)

\* mutant: the terminal flag is not passed on
Transition_DoneDropped(s, a, r, ns, d) ==
    [state |-> s, action |-> a, reward |-> r, next_state |-> ns, done |-> FALSE]

\* the transition record handed to store_transition
Transition(s, a, r, ns, d) ==
    [state |-> s, action |-> a, reward |-> r, next_state |-> ns, done |-> d]

\* mutant: the loss is appended without the None test
AppendLoss_Always(l, loss) == Append(l, loss)

\* if loss is not None: losses.append(loss)
AppendLoss(l, loss) == IF loss # None THEN Append(l, loss) ELSE l

\* update_model's effect on the policy network: one optimizer step, or none
PolicyAfter(version, loss) == IF loss # None THEN version + 1 ELSE version

\* if done: if 'info' in info: ... the outcome counters
WinsAfter(w, d, msg) ==
    IF ~d THEN w
    ELSE IF msg = "Player 1 wins" THEN [w EXCEPT ![1] = @ + 1]
    ELSE IF msg = "Player 2 wins" THEN [w EXCEPT ![2] = @ + 1]
    ELSE w

\* mutant: a draw is not counted
DrawsAfter_Never(n, d, msg) == n

DrawsAfter(n, d, msg) ==
    IF d /\ msg # "Player 1 wins" /\ msg # "Player 2 wins" /\ msg = "Draw"
    THEN n + 1 ELSE n

\* mutant: a draw costs both agents the penalty
SelfPenalized_DrawToo(rw, d, msg) ==
    IF ~d THEN rw
    ELSE IF msg = "Player 1 wins" THEN [rw EXCEPT ![2] = @ - LossPenalty]
    ELSE IF msg = "Player 2 wins" THEN [rw EXCEPT ![1] = @ - LossPenalty]
    ELSE [a \in Agents |-> rw[a] - LossPenalty]

\* if done: the penalty of the losing agent (self-play penalizes either agent)
SelfPenalized(rw, d, msg) ==
    IF ~d THEN rw
    ELSE IF msg = "Player 1 wins" THEN [rw EXCEPT ![2] = @ - LossPenalty]
    ELSE IF msg = "Player 2 wins" THEN [rw EXCEPT ![1] = @ - LossPenalty]
    ELSE rw

\* rule-based loop: only agent1 is penalized
RulePenalized(rw, d, msg) ==
    IF ~d THEN rw
    ELSE IF msg = "Player 1 wins" THEN rw
    ELSE IF msg = "Player 2 wins" THEN [rw EXCEPT ![1] = @ - LossPenalty]
    ELSE rw

\* mutant: the sync is due one episode early
TargetDue_OffByOne(ep) == (ep + 1) % UpdateTargetEvery = 0

\* if episode % agent1.update_target_every == 0
TargetDue(ep) == ep % UpdateTargetEvery = 0

\* if episode % log_every == 0
LogDue(ep) == ep % LogEvery = 0

\* round(x, 1) on hundredths: the nearest tenth
Round1(x) == ((x + 5) \div 10) * 10

\* losses[-step_count:]
LastN(l, n) ==
    IF n = 0 \/ n >= Len(l) THEN l ELSE SubSeq(l, Len(l) - n + 1, Len(l))

\* np.mean(losses[-step_count:]) if losses else 0: the mean is identified by
\* the losses it is taken over
AvgLoss(l, n) == IF l # <<>> THEN [mean_of |-> LastN(l, n)] ELSE 0

\* wins / total_games if total_games > 0 else 0, as a fraction <<num, den>>;
\* <<0, 0>> is the literal 0 of the else branch
Rate(w, total) == IF total > 0 THEN <<w, total>> ELSE <<0, 0>>

WinRatePair(w, d) ==
    LET total == w[1] + w[2] + d
    IN  <<Rate(w[1], total), Rate(w[2], total)>>

\* next_state of the transition stored last in this episode, if any
LastStoredNext ==
    IF Len(calls) = 5 THEN calls[4].arg.next_state ELSE prev_next

File(kind, path, data) == [kind |-> kind, path |-> path, data |-> data]

(***************************************************************************)
(* Actions.  A local of the code that is assigned once and read several    *)
(* times is bound by \E over a singleton, which evaluates it once.         *)
(***************************************************************************)
\* for episode in range(1, num_episodes + 1): state = env.reset() ...
StartEpisode ==
    /\ pc = "start"
    /\ ~ForLoopDone(episode)
    /\ episode' = episode + 1
    /\ board' = Reset.board
    /\ current_player' = Reset.current_player
    /\ state' = Reset.state
    /\ done' = FALSE
    /\ agent_reward' = [a \in Agents |-> 0]
    /\ step_count' = 0
    /\ pc' = "loop"
    /\ calls' = <<>>
    /\ prev_next' = NoState
    /\ steps' = 0
    /\ epsilon' = EpisodeEpsilon(epsilon)
    /\ step_rewards' = [a \in Agents |-> 0]
    /\ stored' = [a \in Agents |-> <<>>]
    /\ UNCHANGED visVars
    /\ UNCHANGED <<mode, buffer, policy_net, target_net, info, wins, draws, win_rates,
                   losses, rewards_list, avg_losses, prints, saved, sync_log, outcomes,
                   turns>>

\* one iteration of the self-play while-loop
SelfPlayStep ==
    /\ mode = "self"
    /\ pc = "loop"
    /\ ~done
    /\ \E cp \in {current_player} :
       \E agent \in {SelfAgent(cp)} :
       \E valid_moves \in {ValidMoves(board)} :
       \E action_index \in SelectAction(valid_moves) :
           \E action \in {ActionOf(action_index)} :
           \E r \in {EnvStep(board, cp, action)} :
           \E t \in {Transition(state, action_index, r.reward, r.next_state, r.done)} :
           \E buf \in {BufferAdd(buffer[agent], t)} :
           \E loss \in {UpdateModel(buf, episode, policy_net[agent])} :
               /\ epsilon' = [epsilon EXCEPT ![agent] = @ + 1]
               /\ board' = r.board
               /\ current_player' = r.current_player
               /\ buffer' = [buffer EXCEPT ![agent] = buf]
               /\ policy_net' = [policy_net EXCEPT ![agent] = PolicyAfter(@, loss)]
               /\ losses' = [losses EXCEPT ![cp] = AppendLoss(@, loss)]
               /\ state' = SelfNextState(state, r.next_state)
               /\ step_count' = SelfNextStepCount(step_count)
               /\ done' = r.done
               /\ info' = r.info
               /\ agent_reward' =
                      SelfPenalized([agent_reward EXCEPT ![cp] = @ + r.reward],
                                    r.done, r.info)
               /\ wins' = WinsAfter(wins, r.done, r.info)
               /\ draws' = DrawsAfter(draws, r.done, r.info)
               /\ pc' = IF LoopExit(r.done) THEN "log" ELSE "loop"
               /\ calls' = << Call("get_valid_moves", 0, Encode(board), valid_moves),
                              Call("select_action", agent, <<state, valid_moves>>,
                                   action_index),
                              Call("step", cp, action, r.info),
                              Call("store_transition", agent, t, 0),
                              Call("update_model", agent, 0, loss) >>
               /\ prev_next' = LastStoredNext
               /\ steps' = steps + 1
               /\ outcomes' = IF r.done THEN Append(outcomes, r.info) ELSE outcomes
               /\ turns' = [turns EXCEPT ![cp] = @ + 1]
               /\ step_rewards' = [step_rewards EXCEPT ![cp] = @ + r.reward]
               /\ stored' = [stored EXCEPT ![agent] = Append(@, t)]
    /\ UNCHANGED visVars
    /\ UNCHANGED <<mode, target_net, episode, win_rates, rewards_list, avg_losses,
                   prints, saved, sync_log>>

\* one iteration of the rule-based while-loop at a player-1 turn
RuleAgentStep ==
    /\ mode = "rule"
    /\ pc = "loop"
    /\ ~done
    /\ current_player = 1
    /\ \E valid_moves \in {ValidMoves(board)} :
       \E action_index \in SelectAction(valid_moves) :
           \E action \in {ActionOf(action_index)} :
           \E r \in {EnvStep(board, 1, action)} :
           \E t \in {Transition(state, action_index, r.reward, r.next_state, r.done)} :
           \E buf \in {BufferAdd(buffer[1], t)} :
           \E loss \in {UpdateModel(buf, episode, policy_net[1])} :
               /\ epsilon' = [epsilon EXCEPT ![1] = @ + 1]
               /\ board' = r.board
               /\ current_player' = r.current_player
               /\ buffer' = [buffer EXCEPT ![1] = buf]
               /\ policy_net' = [policy_net EXCEPT ![1] = PolicyAfter(@, loss)]
               /\ losses' = [losses EXCEPT ![1] = AppendLoss(@, loss)]
               /\ state' = RuleNextState(state, r.next_state)
               /\ step_count' = RuleNextStepCount(step_count)
               /\ done' = r.done
               /\ info' = r.info
               /\ agent_reward' =
                      RulePenalized([agent_reward EXCEPT ![1] = @ + r.reward],
                                    r.done, r.info)
               /\ wins' = WinsAfter(wins, r.done, r.info)
               /\ draws' = DrawsAfter(draws, r.done, r.info)
               /\ pc' = IF LoopExit(r.done) THEN "log" ELSE "loop"
               /\ calls' = << Call("get_valid_moves", 0, Encode(board), valid_moves),
                              Call("select_action", 1, <<state, valid_moves>>,
                                   action_index),
                              Call("step", 1, action, r.info),
                              Call("store_transition", 1, t, 0),
                              Call("update_model", 1, 0, loss) >>
               /\ prev_next' = LastStoredNext
               /\ steps' = steps + 1
               /\ outcomes' = IF r.done THEN Append(outcomes, r.info) ELSE outcomes
               /\ turns' = [turns EXCEPT ![1] = @ + 1]
               /\ step_rewards' = [step_rewards EXCEPT ![1] = @ + r.reward]
               /\ stored' = [stored EXCEPT ![1] = Append(@, t)]
    /\ UNCHANGED visVars
    /\ UNCHANGED <<mode, target_net, episode, win_rates, rewards_list, avg_losses,
                   prints, saved, sync_log>>

\* one iteration of the rule-based while-loop at the rule-based player's turn
RuleOpponentStep ==
    /\ mode = "rule"
    /\ pc = "loop"
    /\ ~done
    /\ current_player # 1
    /\ \E action \in RuleBasedMoves(board) :
           \E r \in {EnvStep(board, current_player, action)} :
               /\ board' = r.board
               /\ current_player' = r.current_player
               /\ state' = RuleNextState(state, r.next_state)
               /\ step_count' = RuleNextStepCount(step_count)
               /\ done' = r.done
               /\ info' = r.info
               /\ agent_reward' = RulePenalized(agent_reward, r.done, r.info)
               /\ wins' = WinsAfter(wins, r.done, r.info)
               /\ draws' = DrawsAfter(draws, r.done, r.info)
               /\ pc' = IF LoopExit(r.done) THEN "log" ELSE "loop"
               /\ calls' = << Call("smartest_rule_based_move", 0, Encode(board), action),
                              Call("step", current_player, action, r.info) >>
               /\ steps' = steps + 1
               /\ outcomes' = IF r.done THEN Append(outcomes, r.info) ELSE outcomes
               /\ turns' = [turns EXCEPT ![current_player] = @ + 1]
               /\ step_rewards' = [step_rewards EXCEPT ![current_player] = @ + r.reward]
    /\ UNCHANGED visVars
    /\ UNCHANGED <<mode, buffer, epsilon, policy_net, target_net, episode, losses,
                   win_rates, rewards_list, avg_losses, prints, saved, sync_log,
                   prev_next, stored>>

\* the agents a loop owns
LoopAgents == IF mode = "self" THEN {1, 2} ELSE {1}

\* after the while-loop: target update, metric logging, progress line
EndEpisode ==
    /\ pc = "log"
    /\ target_net' = [a \in Agents |->
                        IF a \in LoopAgents /\ TargetDue(episode)
                        THEN policy_net[a] ELSE target_net[a]]
    /\ sync_log' = [a \in Agents |->
                        IF a \in LoopAgents /\ TargetDue(episode)
                        THEN Append(sync_log[a], episode) ELSE sync_log[a]]
    /\ rewards_list' = [a \in Agents |->
                        IF a \notin LoopAgents THEN rewards_list[a]
                        ELSE IF mode = "rule"
                        THEN AppendMetric(episode, rewards_list[a], Round1(agent_reward[a]))
                        ELSE AppendMetric(episode, rewards_list[a], agent_reward[a])]
    /\ avg_losses' = [a \in Agents |->
                        IF a \in LoopAgents
                        THEN AppendMetric(episode, avg_losses[a],
                                          AvgLoss(losses[a], step_count))
                        ELSE avg_losses[a]]
    /\ win_rates' = AppendMetric(episode, win_rates, WinRatePair(wins, draws))
    /\ prints' = IF LogDue(episode) THEN prints \cup {episode} ELSE prints
    /\ pc' = "start"
    /\ UNCHANGED visVars
    /\ UNCHANGED <<mode, board, current_player, buffer, epsilon, policy_net, episode,
                   state, done, info, agent_reward, step_count, wins, draws, losses,
                   saved, calls, prev_next, steps, outcomes, turns, step_rewards,
                   stored>>

\* the files each loop writes after its for-loop, in order
RuleSaves ==
    LET dir == <<"rule_based_dqn", RewardsType>>
    IN  << File("model", Append(dir, ModelSavePath), policy_net[1]),
           File("metric", Append(dir, "win_rates.npy"), win_rates),
           File("metric", Append(dir, "agent1_rewards.npy"), rewards_list[1]),
           File("metric", Append(dir, "agent1_losses.npy"), avg_losses[1]) >>

SelfSaves ==
    << File("model", <<"agent1_", ModelSavePath>>, policy_net[1]),
       File("model", <<"agent2_", ModelSavePath>>, policy_net[2]),
       File("metric", <<"win_rates.npy">>, win_rates),
       File("metric", <<"agent1_rewards.npy">>, rewards_list[1]),
       File("metric", <<"agent2_rewards.npy">>, rewards_list[2]),
       File("metric", <<"agent1_losses.npy">>, avg_losses[1]),
       File("metric", <<"agent2_losses.npy">>, avg_losses[2]) >>

\* after the for-loop: save the model(s), then the metrics
SaveAll ==
    /\ pc = "start"
    /\ ForLoopDone(episode)
    /\ saved' = saved \o (IF mode = "rule" THEN RuleSaves ELSE SelfSaves)
    /\ pc' = "finished"
    /\ UNCHANGED visVars
    /\ UNCHANGED <<mode, board, current_player, buffer, epsilon, policy_net, target_net,
                   episode, state, done, info, agent_reward, step_count, wins, draws,
                   win_rates, losses, rewards_list, avg_losses, prints, calls,
                   sync_log, prev_next, steps, outcomes, turns, step_rewards, stored>>

Next ==
    \/ StartEpisode
    \/ SelfPlayStep
    \/ RuleAgentStep
    \/ RuleOpponentStep
    \/ EndEpisode
    \/ SaveAll

Spec == Init /\ [][Next]_vars

\* the loops are sequential programs: a step that can be taken is taken
FairSpec == Spec /\ WF_vars(Next)

(***************************************************************************)
(* visualize_training_against_rule_based(rewards_type, log_every, suffix,  *)
(* save_folder)                                                            *)
(***************************************************************************)
\* mutant: the rewards file is tried before the win rates file
TryBlocks_RewardsFirst ==
    << [files |-> <<"agent1_rewards">>, msg |-> "Reward file not found."],
       [files |-> <<"win_rates">>, msg |-> "Win rates file not found."],
       [files |-> <<"policy_losses", "value_losses">>, msg |-> "Loss files not found."] >>

\* the three try/except FileNotFoundError blocks, in order: the files each
\* loads and the message its handler prints before returning
TryBlocks ==
    << [files |-> <<"win_rates">>, msg |-> "Win rates file not found."],
       [files |-> <<"agent1_rewards">>, msg |-> "Reward file not found."],
       [files |-> <<"policy_losses", "value_losses">>, msg |-> "Loss files not found."] >>

\* whether a try block raises: one of its loads fails
Raises(block, fsys) ==
    \E i \in 1 .. Len(block.files) : LoadFails(fsys, block.files[i])

\* the first try block that raises, 0 when all files load
FirstRaising(blocks, fsys) ==
    IF \E k \in 1 .. Len(blocks) : Raises(blocks[k], fsys)
    THEN CHOOSE k \in 1 .. Len(blocks) :
             /\ Raises(blocks[k], fsys)
             /\ \A j \in 1 .. (k - 1) : ~Raises(blocks[j], fsys)
    ELSE 0

\* mutant: the axis stops one interval early
EpisodeAxis_ShortStop(n, step) == Arange(step, n * step, step)

\* episodes = np.arange(log_every, (num_points + 1) * log_every, log_every)
EpisodeAxis(n, step) == Arange(step, (n + 1) * step, step)

\* f"{save_folder}/{rewards_type}" and the image's path below it
PlotDir == <<SaveFolder, VisRewardsType>>
SavePath == PlotDir \o <<"ppo_training_metrics", Suffix>>

\* the function is called: any subset of the metric files exists, with arrays
\* of any length, and the output directory may exist already
VisInit ==
    /\ mode = "vis"
    /\ LoopInit
    /\ vpc = "load"
    /\ metric_files \in [MetricFiles -> {Absent} \cup (0 .. MaxPoints)]
    /\ fs_dirs \in {{}, {PlotDir}}
    /\ log_every \in 1 .. MaxLogEvery
    /\ num_points = 0
    /\ episodes = <<>>
    /\ rates_len = 0
    /\ vis_out = <<>>
    /\ plots = <<>>
    /\ made_dirs = <<>>
    /\ dirs_before = fs_dirs

\* lines 18-36: load the metrics, or print the first failing block's message
\* and return
VisLoad ==
    /\ vpc = "load"
    /\ \E k \in {FirstRaising(TryBlocks, metric_files)} :
           IF k # 0
           THEN /\ vis_out' = Append(vis_out, TryBlocks[k].msg)
                /\ vpc' = "returned"
                /\ UNCHANGED <<num_points, rates_len>>
           ELSE /\ num_points' = metric_files["win_rates"]
                /\ rates_len' = metric_files["win_rates"]
                /\ vpc' = "axis"
                /\ UNCHANGED vis_out
    /\ UNCHANGED <<metric_files, fs_dirs, log_every, episodes, plots, made_dirs,
                   dirs_before>>
    /\ UNCHANGED loopVars

\* lines 38-47: the episode axis, cut with win_rates to the shorter of the two
\* when their lengths differ
VisAxis ==
    /\ vpc = "axis"
    /\ \E axis \in {EpisodeAxis(num_points, log_every)} :
           IF Len(axis) # rates_len
           THEN \E min_length \in {Min(Len(axis), rates_len)} :
                /\ vis_out' = Append(vis_out, "Mismatch in length")
                /\ episodes' = SubSeq(axis, 1, min_length)
                /\ rates_len' = min_length
           ELSE /\ episodes' = axis
                /\ UNCHANGED <<vis_out, rates_len>>
    /\ vpc' = "plot"
    /\ UNCHANGED <<metric_files, fs_dirs, log_every, num_points, plots, made_dirs,
                   dirs_before>>
    /\ UNCHANGED loopVars

\* lines 49-102: plot, create the output directory if it does not exist, save
\* the image
VisSave ==
    /\ vpc = "plot"
    /\ IF PlotDir \notin fs_dirs
       THEN /\ fs_dirs' = fs_dirs \cup {PlotDir}
            /\ made_dirs' = Append(made_dirs, PlotDir)
       ELSE UNCHANGED <<fs_dirs, made_dirs>>
    /\ plots' = Append(plots, SavePath)
    /\ vis_out' = Append(vis_out, "Plot saved")
    /\ vpc' = "returned"
    /\ UNCHANGED <<metric_files, log_every, num_points, episodes, rates_len,
                   dirs_before>>
    /\ UNCHANGED loopVars

VisNext ==
    \/ VisLoad
    \/ VisAxis
    \/ VisSave

VisSpec == VisInit /\ [][VisNext]_vars

(***************************************************************************)
(* Properties                                                              *)
(***************************************************************************)
\* episodes whose end-of-episode logging has run
Completed == IF pc \in {"start", "finished"} THEN episode ELSE episode - 1

\* the last iteration was a DQN agent's turn: calls holds its five calls
AgentTurn == Len(calls) = 5

\* C1: in the rule-based loop, at every player-1 turn the state passed to
\* select_action and stored as the transition's state is the encoding of the
\* board as it stands immediately before that action.
C1_RuleStateIsCurrentBoard ==
    (mode = "rule" /\ AgentTurn) =>
        /\ calls[2].arg[1] = calls[1].arg
        /\ calls[4].arg.state = calls[1].arg

\* C2: every iteration of the self-play while-loop calls get_valid_moves,
\* select_action, step, store_transition and update_model exactly once each, in
\* this order, the three agent calls on the agent of env.current_player; the
\* loop's state is then the stored next_state, and the stored state is the
\* next_state stored by the previous iteration (reset()'s result for the first).
C2_SelfIterationOrder ==
    (mode = "self" /\ calls # <<>>) =>
        /\ AgentTurn
        /\ [i \in 1..5 |-> calls[i].op] =
               <<"get_valid_moves", "select_action", "step",
                 "store_transition", "update_model">>
        /\ \A i \in {2, 4, 5} : calls[i].agent = calls[3].agent
        /\ calls[2].arg[1] = calls[4].arg.state
        /\ state = calls[4].arg.next_state
        /\ calls[4].arg.state =
               (IF prev_next = NoState THEN Reset.state ELSE prev_next)

\* C2's case: player 2's agent has just moved on a board that already holds moves
C2_Witness ==
    /\ mode = "self"
    /\ AgentTurn
    /\ calls[3].agent = 2
    /\ steps >= 4
    /\ prev_next # NoState

\* the episodes, in order, at whose end a target sync is due
SyncEpisodes(n) == [i \in 1..(n \div UpdateTargetEvery) |-> i * UpdateTargetEvery]

\* C3: each agent's target network is synced exactly at the end of the episodes
\* whose index is a multiple of update_target_every, never inside an episode, so
\* after E completed episodes it has had E div update_target_every syncs; in
\* self-play both agents are synced at the end of the same episodes.
C3_TargetSyncCadence ==
    /\ \A a \in LoopAgents : sync_log[a] = SyncEpisodes(Completed)
    /\ \A a \in Agents \ LoopAgents : sync_log[a] = <<>>
    /\ mode = "self" => sync_log[1] = sync_log[2]

\* C3's case: a sync has happened and a later episode, not a multiple, has ended
C3_Witness ==
    /\ mode = "self"
    /\ pc = "start"
    /\ Len(sync_log[2]) >= 1
    /\ episode % UpdateTargetEvery # 0
    /\ episode > UpdateTargetEvery

\* C4: in self-play the first move of an episode is agent1's, consecutive moves
\* are made by different agents, and a transition is stored only in the buffer
\* of the agent whose mark its action placed; in the rule-based loop agent1's
\* buffer holds player-1 moves only and no other buffer holds anything.
C4_OwnTransitionsOnly ==
    /\ \A a \in Agents : \A i \in 1..Len(buffer[a]) :
           /\ buffer[a][i].action \in buffer[a][i].next_state[a]
           /\ buffer[a][i].action \notin buffer[a][i].next_state[3 - a]
    /\ (mode = "self" /\ AgentTurn) =>
           /\ calls[4].agent = (IF steps % 2 = 1 THEN 1 ELSE 2)
           /\ calls[4].agent = calls[3].agent
           /\ buffer[calls[4].agent][Len(buffer[calls[4].agent])] = calls[4].arg
    /\ mode = "rule" => buffer[2] = <<>>

\* C4's case: both self-play buffers are full of their owners' moves
C4_Witness ==
    /\ mode = "self"
    /\ Len(buffer[1]) = MemorySize
    /\ Len(buffer[2]) = MemorySize
    /\ steps >= 2
    /\ episode >= 2

\* C5: an episode makes at most N*N calls to env.step, the while-loop is left
\* as soon as done is true, and the run reaches its end after exactly
\* num_episodes episodes.
C5_RunTerminates ==
    /\ [](steps <= BoardSize * BoardSize)
    /\ [](pc = "loop" => ~done /\ ValidMoves(board) # {})
    /\ [](pc = "finished" => episode = NumEpisodes /\ Len(outcomes) = NumEpisodes)
    /\ <>(pc = "finished")

\* C5's case: the run has ended and its last episode filled the board
C5_Witness ==
    /\ pc = "finished"
    /\ steps = BoardSize * BoardSize
    /\ info = "Draw"

\* C6: a DQN agent is never asked to select from an empty set, the set it
\* selects from is the set get_valid_moves returned for the current board, and
\* the action passed to env.step is a cell of that set, so the step is never an
\* invalid move.
C6_AgentMoveIsValid ==
    AgentTurn =>
        /\ calls[1].res # {}
        /\ calls[1].res = Cells \ (calls[1].arg[1] \cup calls[1].arg[2])
        /\ calls[2].arg[2] = calls[1].res
        /\ calls[2].res \in calls[1].res
        /\ InBounds(calls[3].arg[1], calls[3].arg[2])
        /\ Flat(calls[3].arg[1], calls[3].arg[2]) \in calls[1].res
        /\ calls[3].res # "Invalid move"

\* C6's case: the agent selects the last empty cell of the board
C6_Witness ==
    /\ AgentTurn
    /\ Cardinality(calls[1].res) = 1
    /\ calls[3].res = "Draw"

Count(seq, x) == Cardinality({i \in 1..Len(seq) : seq[i] = x})

\* C7: one outcome counter is incremented per finished episode, the one the
\* terminal message names, so the counters sum to the number of finished
\* episodes; every recorded win-rate pair is computed with total_games > 0, has
\* both components in [0, 1] and a sum of at most 1.
C7_OneOutcomePerEpisode ==
    /\ Len(outcomes) = (IF pc = "loop" THEN episode - 1 ELSE episode)
    /\ wins[1] + wins[2] + draws = Len(outcomes)
    /\ wins[1] = Count(outcomes, "Player 1 wins")
    /\ wins[2] = Count(outcomes, "Player 2 wins")
    /\ draws = Count(outcomes, "Draw")
    /\ \A i \in 1..Len(win_rates) :
           /\ win_rates[i][1][2] = i
           /\ win_rates[i][2][2] = i
           /\ win_rates[i][1][1] >= 0
           /\ win_rates[i][2][1] >= 0
           /\ win_rates[i][1][1] + win_rates[i][2][1] <= i

\* C7's case: a run in which each of the three outcomes has occurred
C7_Witness ==
    /\ pc = "finished"
    /\ wins[1] >= 1
    /\ wins[2] >= 1
    /\ draws >= 1

\* C8: a loss list holds exactly the non-none results of its agent's
\* update_model calls, in order, and never none; a none result leaves the
\* episode running.
C8_NoneLossExcluded ==
    /\ \A a \in Agents :
           /\ Len(losses[a]) = policy_net[a]
           /\ \A i \in 1..Len(losses[a]) :
                  losses[a][i] # None /\ losses[a][i].version = i
    /\ AgentTurn =>
           /\ calls[5].res # None =>
                  /\ losses[calls[5].agent] # <<>>
                  /\ losses[calls[5].agent][Len(losses[calls[5].agent])] = calls[5].res
           /\ (calls[5].res = None /\ calls[3].res = "") => (pc = "loop" /\ ~done)

\* C8's case: an agent whose first update returned none has later got a loss
C8_Witness ==
    /\ AgentTurn
    /\ calls[5].agent = 2
    /\ calls[5].res # None
    /\ epsilon[2] > policy_net[2]

FilesOfKind(k) == {i \in 1..Len(saved) : saved[i].kind = k}

\* C9: nothing is saved before the last of the num_episodes episodes has
\* finished; then each agent's model and each metric array is saved exactly
\* once, all models before all metrics.
C9_SavesAreTerminal ==
    /\ pc # "finished" => saved = <<>>
    /\ pc = "finished" =>
           /\ episode = NumEpisodes
           /\ Len(outcomes) = NumEpisodes
           /\ Cardinality(FilesOfKind("model")) = Cardinality(LoopAgents)
           /\ Cardinality(FilesOfKind("metric")) = 1 + 2 * Cardinality(LoopAgents)
           /\ \A i \in FilesOfKind("model") : \A j \in FilesOfKind("metric") : i < j
           /\ \A i, j \in 1..Len(saved) : saved[i].path = saved[j].path => i = j

\* C9's case: the rule-based run has written its model and its three metrics
C9_Witness ==
    /\ pc = "finished"
    /\ mode = "rule"
    /\ Len(saved) = 4
    /\ saved[1].kind = "model"

\* C10: win_rates, every rewards list and every average-loss list have one
\* entry per completed episode, entry i appended at the end of episode i,
\* whatever log_every is; the saved arrays have num_episodes entries.
C10_MetricsPerEpisode ==
    /\ Len(win_rates) = Completed
    /\ \A a \in LoopAgents :
           Len(rewards_list[a]) = Completed /\ Len(avg_losses[a]) = Completed
    /\ \A i \in 1..Len(win_rates) : win_rates[i][1][2] = i
    /\ prints = {e \in 1..Completed : e % LogEvery = 0}
    /\ \A i \in FilesOfKind("metric") : Len(saved[i].data) = NumEpisodes

\* C10's case: the arrays are saved with an entry for episodes that printed
\* no progress line
C10_Witness ==
    /\ pc = "finished"
    /\ mode = "self"
    /\ Len(saved) = 7
    /\ Len(saved[7].data) = NumEpisodes
    /\ Cardinality(prints) < NumEpisodes

\* C11: epsilon is never reset.  The decays applied to a loop's agent are as
\* many as the turns its player has played in the whole run, and no step of
\* the run - an episode's start with env.reset(), an episode's end with
\* update_target_network() - raises the epsilon of an agent.
C11_EpsilonNeverReset ==
    /\ [](\A a \in LoopAgents : epsilon[a] = turns[a])
    /\ [][\A a \in LoopAgents :
            EpsilonValue(epsilon'[a]) <= EpsilonValue(epsilon[a])]_vars

\* agent1 selects an action in a later episode, with the epsilon that the
\* episodes before it have decayed
C11_Witness ==
    /\ episode >= 2
    /\ AgentTurn
    /\ calls[2].agent = 1
    /\ epsilon[1] > steps
    /\ EpsilonValue(epsilon[1]) < EpsilonStart

\* C12: every file a loop saves, model or metric array, lies under a directory
\* named after the reward configuration, so that runs with different reward
\* configurations write to different paths.
C12_SavedUnderRewardsDir ==
    \A i \in 1 .. Len(saved) :
        \E j \in 1 .. (Len(saved[i].path) - 1) : saved[i].path[j] = RewardsType

\* the losses of l that update_model returned up to, or in, episode i
LossesUpTo(l, i) == SelectSeq(l, LAMBDA x : x.episode <= i)
LossesOf(l, i) == SelectSeq(l, LAMBDA x : x.episode = i)

\* C13: the average-loss entry of an agent for episode i is the mean over
\* exactly the losses its update_model returned in episode i, and it is 0 only
\* when the agent had produced no loss at all by the end of that episode.
C13_AvgLossOverEpisode ==
    \A a \in LoopAgents :
        \A i \in 1 .. Len(avg_losses[a]) :
            IF LossesUpTo(losses[a], i) = <<>>
            THEN avg_losses[a][i] = 0
            ELSE avg_losses[a][i].mean_of = LossesOf(losses[a], i)

Other(a) == 3 - a

\* the reward claimed for agent a in the current episode: what env.step
\* returned for its own moves, less the penalty when the episode has ended
\* with the other player named as the winner
OwnReward(a) ==
    step_rewards[a] - (IF done /\ info = WinMessage(Other(a)) THEN LossPenalty ELSE 0)

\* C14: the reward of a loop's agent is the sum of what env.step returned for
\* its own moves in the episode, less the penalty exactly when the terminal
\* message names the other player as the winner; the entry recorded at the
\* episode's end is that value (rounded to one decimal in the rule-based loop).
C14_RewardIsOwnStepsLessPenalty ==
    \A a \in LoopAgents :
        /\ agent_reward[a] = OwnReward(a)
        /\ (pc \in {"start", "finished"} /\ episode >= 1) =>
               /\ Len(rewards_list[a]) = episode
               /\ rewards_list[a][episode] =
                      IF mode = "rule" THEN Round1(OwnReward(a)) ELSE OwnReward(a)

\* an episode that player 2 won has been recorded: agent1 carries the penalty,
\* and in self-play agent2 has the reward of its winning move
C14_Witness ==
    /\ pc = "start"
    /\ episode >= 1
    /\ info = "Player 2 wins"
    /\ step_rewards[2] > StepReward + WinReward
    /\ agent_reward[1] = step_rewards[1] - LossPenalty

\* the player whose env.step call was the last one made
LastMover == IF AgentTurn THEN calls[3].agent ELSE calls[2].agent

\* how many of the transitions agent a stored in this episode have done = true
DoneStored(a) == Cardinality({i \in 1 .. Len(stored[a]) : stored[a][i].done})

\* C15: a transition with done = true is stored only for the agent whose own
\* move ended the episode.  At the end of an episode the final mover, when it
\* is an agent of the loop, has stored exactly one such transition, its last;
\* the other agent has stored none, and its last transition has done = false
\* and the reward env.step returned for that move, without the loss penalty.
\* Before the end of the episode no stored transition has done = true.
C15_DoneStoredForFinalMoverOnly ==
    \A a \in LoopAgents :
        IF done /\ calls # <<>> /\ LastMover = a
        THEN /\ DoneStored(a) = 1
             /\ stored[a][Len(stored[a])].done
        ELSE /\ DoneStored(a) = 0
             /\ stored[a] # <<>> =>
                    /\ ~stored[a][Len(stored[a])].done
                    /\ stored[a][Len(stored[a])].reward = StepReward

\* self-play: player 2 has won with its own move and agent1, the loser, has
\* been charged the penalty in its episode reward
C15_Witness ==
    /\ mode = "self"
    /\ done
    /\ info = "Player 2 wins"
    /\ LastMover = 2
    /\ stored[1] # <<>>
    /\ agent_reward[1] < 0

\* rule-based loop: the rule-based player's move has ended the episode
C15_WitnessRule ==
    /\ mode = "rule"
    /\ done
    /\ LastMover = 2
    /\ stored[1] # <<>>

AllLoad == \A f \in MetricFiles : metric_files[f] # Absent

\* the message for the first file that is missing, in the order win rates,
\* rewards, losses
MissingMessage ==
    IF metric_files["win_rates"] = Absent THEN "Win rates file not found."
    ELSE IF metric_files["agent1_rewards"] = Absent THEN "Reward file not found."
    ELSE "Loss files not found."

\* C16: when a metric file is missing the function creates no directory and
\* saves no plot, and it returns having printed one message, that of the first
\* missing file in the order win rates, rewards, losses.  When all four files
\* load it returns with exactly one image saved, under save_folder/rewards_type,
\* and has created that directory only if it did not exist.
C16_VisFailsWithoutSideEffects ==
    IF AllLoad
    THEN /\ vpc # "returned" => plots = <<>> /\ made_dirs = <<>>
         /\ vpc = "returned" =>
                /\ Len(plots) = 1
                /\ SubSeq(plots[1], 1, 2) = <<SaveFolder, VisRewardsType>>
                /\ PlotDir \in fs_dirs
                /\ made_dirs = IF PlotDir \in dirs_before THEN <<>> ELSE <<PlotDir>>
    ELSE /\ plots = <<>>
         /\ made_dirs = <<>>
         /\ fs_dirs = dirs_before
         /\ vpc \in {"load", "returned"}
         /\ vpc = "returned" => vis_out = <<MissingMessage>>

\* the win rates file exists and a later file is missing, the output directory
\* does not exist, and the function has returned
C16_Witness ==
    /\ vpc = "returned"
    /\ metric_files["win_rates"] # Absent
    /\ \E f \in MetricFiles : metric_files[f] = Absent
    /\ dirs_before = {}
    /\ vis_out # <<>>

\* all four files load and the image is saved into a directory that existed
C16_WitnessSaved ==
    /\ vpc = "returned"
    /\ AllLoad
    /\ dirs_before = {PlotDir}
    /\ plots # <<>>

\* C17: for every log_every >= 1 and every length n of win_rates the episode
\* axis has the n points log_every, 2*log_every, ..., n*log_every: the
\* mismatch branch is not taken and win_rates is not truncated.
C17_AxisHasOnePointPerRate ==
    vpc \in {"plot", "returned"} /\ AllLoad =>
        /\ Len(episodes) = metric_files["win_rates"]
        /\ \A i \in 1 .. Len(episodes) : episodes[i] = i * log_every
        /\ rates_len = metric_files["win_rates"]
        /\ \A i \in 1 .. Len(vis_out) : vis_out[i] # "Mismatch in length"

\* an axis of several points at an interval above 1
C17_Witness ==
    /\ vpc = "plot"
    /\ log_every >= 2
    /\ num_points >= 2
    /\ Len(episodes) = num_points
    /\ episodes[num_points] = num_points * log_every

=============================================================================
